---- MODULE Spec2Model ----
(***************************************************************************)
(* A model of the OLI Cloud client, watertap/tools/oli_api/client.py:      *)
(* the batch request/poll orchestration (process_request_list, call_async, *)
(* call, _poll_result_link) and the session's DBS file tracking            *)
(* (__enter__, __exit__, upload_dbs_file, generate_dbs_file,               *)
(* dbs_file_cleanup).                                                      *)
(*                                                                         *)
(* The event loop is single threaded.  A coroutine of a batch runs from    *)
(* one await to the next without interruption: its submit step ends at     *)
(* `await asyncio.sleep(poll_time)`, and its poll step (_poll_result_link, *)
(* which sleeps with the blocking time.sleep) runs to its end.             *)
(***************************************************************************)
EXTENDS Integers, Sequences, FiniteSets, TLC

\* ------------------------------------------------------------------ bounds
\* longest request list handed to process_request_list
MaxRequests == 3
\* largest max_request (poll attempts) of a call
MaxPoll == 2
\* most DBS files created on the cloud in a run
MaxFiles == 3
\* most operations a caller makes on the client's session in a run
MaxOps == 5

VARIABLES
    requests,       \* the caller's request list (Python index i is requests[i+1])
    batch_size,     \* the batch_size argument; 0 stands for None (both falsy)
    burst_job_tag,  \* the burst_job_tag argument; "None" when not given
    max_request,    \* the max_request of the calls
    main,           \* where the entry point stands
    plan,           \* batch_generator's locals: batch_size, num_batches, label
    batch,          \* batch_generator's loop variable
    task,           \* one record per request: the state of its call
    result_list,    \* collect_results' result_list / the returned value
    error,          \* the exception the entry point raised, "none" if none
    gather_exc,     \* the exception asyncio.gather propagates (the first set)
    poller,         \* the call that is (or was last) inside _poll_result_link, -1 if none
    attempts,       \* _poll_result_link: the GETs it has made
    last,           \* _poll_result_link: result_req, the response to its last GET
    out_of_order,   \* history: a request finished before one of lower index
    replay,         \* the service's scripted answers, and what a first run on them did
    interactive_mode,   \* self.interactive_mode
    has_session,        \* whether self.session_dbs_files exists (set by __enter__)
    session_dbs_files,  \* self.session_dbs_files
    cloud,              \* the service: the IDs of the user's DBS files
    made,               \* history: per created file, its keep_file and the session it was made in
    epoch,              \* history: how many times __enter__ ran
    cl,                 \* dbs_file_cleanup's frame: caller, dbs_file_ids, position, IDs sent
    delete_log,         \* history: every ID sent to the deletion endpoint
    last_op,            \* history: the last session operation and how it ended
    ops                 \* history: the session operations made

flash_vars == <<requests, batch_size, burst_job_tag, max_request, main, plan, batch,
                task, result_list, error, gather_exc, poller, attempts, last, out_of_order,
                replay>>

session_vars == <<interactive_mode, has_session, session_dbs_files, cloud, made, epoch,
                  cl, delete_log, last_op, ops>>

vars == <<flash_vars, session_vars>>

\* a faulty variant: a flash request records something among the session's files
client_tracks_request ==
    /\ session_dbs_files' = Append(session_dbs_files, 0)
    /\ UNCHANGED <<interactive_mode, has_session, cloud, made, epoch, cl, delete_log,
                   last_op, ops>>

\* what process_request_list, call_async, call and their helpers do to the
\* client's own attributes and to the user's files: nothing
client_untouched == UNCHANGED session_vars

\* ------------------------------------------------------------------ values
valid_get_flashes == {"corrosion-contact-surface", "chemistry-info"}

valid_post_flashes == {"isothermal", "corrosion-rates", "wateranalysis"}

PollStatuses == {"IN QUEUE", "IN PROGRESS", "PROCESSED", "FAILED"}

Request(m, f, p) == [flash_method |-> m, dbs_file_id |-> f, input_params |-> p]

\* requests a caller may pass: two valid ones, and one for each validation failure
ValidRequests ==
    { Request("chemistry-info", "abc", "p1"), Request("wateranalysis", "xyz", "p2") }

InvalidRequests ==
    { Request("", "abc", "p1"), Request("isothermal", "", "p1"),
      Request("bogus-method", "abc", "p1") }

\* a response to the submit call: HTTP status, the JSON's "status" ("absent" when
\* the key is missing), whether "data" and data["status"] are present, and
\* data["resultsLink"] ("" when the key is missing)
SubmitResponse(c, s, d, ds, l) ==
    [status_code |-> c, status |-> s, has_data |-> d, data_status |-> ds, resultsLink |-> l]

SubmitResponses ==
    { SubmitResponse(200, "SUCCESS", TRUE, "IN QUEUE", "link"),
      SubmitResponse(200, "SUCCESS", TRUE, "PROCESSED", "link"),
      SubmitResponse(200, "SUCCESS", TRUE, "IN QUEUE", ""),
      SubmitResponse(200, "SUCCESS", TRUE, "absent", "link"),
      SubmitResponse(200, "SUCCESS", FALSE, "absent", ""),
      SubmitResponse(200, "ERROR", TRUE, "IN QUEUE", "link"),
      SubmitResponse(200, "absent", TRUE, "IN QUEUE", "link"),
      SubmitResponse(500, "SUCCESS", TRUE, "IN QUEUE", "link") }

\* a response to a poll GET: HTTP status, the JSON's "status" ("absent" when
\* missing) and its "data" ("absent" when missing, "empty" when falsy)
PollResponse(c, s, d) == [status_code |-> c, status |-> s, data |-> d]

PollResponses ==
    { PollResponse(200, "IN QUEUE", "absent"),
      PollResponse(200, "IN PROGRESS", "empty"),
      PollResponse(200, "PROCESSED", "empty"),
      PollResponse(200, "FAILED", "empty"),
      PollResponse(200, "PROCESSED", "d1"),
      PollResponse(200, "PROCESSED", "d2"),
      PollResponse(200, "FAILED", "d1"),
      PollResponse(200, "PROCESSED", "absent"),
      PollResponse(200, "CANCELLED", "d1"),
      PollResponse(200, "absent", "d1"),
      PollResponse(500, "PROCESSED", "d1") }

NoResponse == PollResponse(0, "absent", "absent")

NoRequest == Request("", "", "")

NoResult == [data |-> "absent", submitted_requests |-> NoRequest]

\* what a finished run is remembered by: its submit calls and their responses, the
\* link it polled and the GETs it made there, and what it returned or raised
NoRun ==
    [done |-> FALSE, sent |-> <<>>, link |-> "", gets |-> 0, raised |-> FALSE,
     value |-> NoResult]

\* no script: the service answers as it likes
NoReplay == [submit |-> NoResponse, polls |-> <<>>, first |-> NoRun]

NoPlan == [batch_size |-> 0, num_batches |-> 0, label |-> "unbound"]

\* the state of one call: pc is new (no coroutine yet), ready (scheduled, not yet
\* run), sleeping (in await asyncio.sleep / time.sleep before the poll), polling
\* (inside _poll_result_link), done or failed; index is the call's index argument
\* (-1 for None), result its `result` dict, err the exception it raised and msg
\* its message; sent is the history of its submit requests, each with the
\* response it got, link its result_link, and polled tells whether a GET of that
\* link was made
NewTask ==
    [pc |-> "new", index |-> -1, result |-> NoResult, err |-> "none", msg |-> <<>>,
     sent |-> <<>>, polled |-> FALSE, link |-> ""]

Indices == 0 .. (Len(requests) - 1)

\* ------------------------------------------------------------ pure functions
\* a faulty variant: the HTTP status code is not looked at
_request_status_test_ignores_code(req, target_keys) ==
    IF target_keys # {}
    THEN req.status # "absent" /\ req.status \in target_keys
    ELSE TRUE

\* _request_status_test: TRUE when it returns the JSON, FALSE when it raises
\* RuntimeError.  target_keys is a set, {} for None.
_request_status_test(req, target_keys) ==
    IF req.status_code = 200
    THEN IF target_keys # {}
         THEN req.status # "absent" /\ req.status \in target_keys
         ELSE TRUE
    ELSE FALSE

\* a faulty variant: only the flash method is checked
missing_argument_method_only(dbs_file_id, flash_method) == flash_method = ""

\* _get_flash_mode's first checks: `not bool(flash_method)`, `not bool(dbs_file_id)`
missing_argument(dbs_file_id, flash_method) == flash_method = "" \/ dbs_file_id = ""

\* a faulty variant: the read-style URL built on the flash route
file_url_on_flash_route(base_url, dbs_file_id, flash_method) ==
    <<base_url, "/flash/", dbs_file_id, "/", flash_method>>

\* f"{base_url}/file/{dbs_file_id}/{flash_method}"
file_url(base_url, dbs_file_id, flash_method) ==
    <<base_url, "/file/", dbs_file_id, "/", flash_method>>

\* f"{base_url}/flash/{dbs_file_id}/{flash_method}"
flash_url(base_url, dbs_file_id, flash_method) ==
    <<base_url, "/flash/", dbs_file_id, "/", flash_method>>

\* a faulty variant: the burst parameter is appended without looking at the tag
with_burst_unchecked(url, tag) == url \o <<"?", "burst=watertap_burst_", tag>>

\* `if burst_job_tag is not None: url = "{}?{}".format(url, "burst={}_{}".format(...))`
with_burst(url, tag) ==
    IF tag # "None" THEN url \o <<"?", "burst=watertap_burst_", tag>> ELSE url

\* credential_manager.headers, the base headers
base_headers == {"Authorization"}

\* credential_manager.update_headers: the given headers layered on the base ones
update_headers(extra) == base_headers \cup extra

\* the texts of _get_flash_mode's errors, in pieces: the literal parts and the
\* values its f-strings put in.  The second string of the last one is no
\* f-string: its braces stay as written.
flash_method_message(flash_method) ==
    <<" Unexpected value for flash_method: ", flash_method, ". ",
      "Valid values: {', '.join(valid_flashes)}.">>

\* _get_flash_mode: the error it raises ("none" if none, with its message) and
\* what it returns
_get_flash_mode(dbs_file_id, flash_method, tag) ==
    IF missing_argument(dbs_file_id, flash_method)
    THEN [err |-> "IOError",
          msg |-> IF flash_method = "" THEN <<"Specify a flash method to run.">>
                  ELSE <<"Specify a DBS file ID to flash.">>,
          mode |-> "", url |-> <<>>, headers |-> {}]
    ELSE IF flash_method \in valid_get_flashes
    THEN [err |-> "none", msg |-> <<>>, mode |-> "GET",
          url |-> file_url("engine_url", dbs_file_id, flash_method),
          headers |-> base_headers]
    ELSE IF flash_method \in valid_post_flashes
    THEN [err |-> "none", msg |-> <<>>, mode |-> "POST",
          url |-> with_burst(flash_url("engine_url", dbs_file_id, flash_method), tag),
          headers |-> update_headers({"Content-Type: application/json"})]
    ELSE [err |-> "RuntimeError", msg |-> flash_method_message(flash_method),
          mode |-> "", url |-> <<>>, headers |-> {}]

\* a faulty variant: the warning is logged, the empty link returned
_get_result_link_warns(req_json) ==
    [err |-> "none",
     link |-> IF req_json.has_data /\ req_json.data_status # "absent"
              THEN req_json.resultsLink
              ELSE ""]

\* _get_result_link: the link it finds; when it finds none, its warning reads the
\* undefined name `req` and raises NameError
_get_result_link(req_json) ==
    LET result_link ==
            IF req_json.has_data /\ req_json.data_status # "absent"
            THEN req_json.resultsLink
            ELSE ""
    IN  [err |-> IF result_link = "" THEN "NameError" ELSE "none", link |-> result_link]

\* a faulty variant: only PROCESSED counts as a terminal status
poll_step_processed_only(resp) ==
    IF ~ _request_status_test(resp, PollStatuses) THEN "RuntimeError"
    ELSE IF resp.status \in {"PROCESSED"}
    THEN IF resp.data = "absent" THEN "KeyError"
         ELSE IF resp.data # "empty" THEN "return"
         ELSE "continue"
    ELSE "continue"

\* a faulty variant: a terminal status ends the poll whatever its data
poll_step_any_data(resp) ==
    IF ~ _request_status_test(resp, PollStatuses) THEN "RuntimeError"
    ELSE IF resp.status \in {"PROCESSED", "FAILED"}
    THEN IF resp.data = "absent" THEN "KeyError" ELSE "return"
    ELSE "continue"

\* a faulty variant: a response that fails the status test is polled again
poll_step_retries_invalid(resp) ==
    IF ~ _request_status_test(resp, PollStatuses) THEN "continue"
    ELSE IF resp.status \in {"PROCESSED", "FAILED"}
    THEN IF resp.data = "absent" THEN "KeyError"
         ELSE IF resp.data # "empty" THEN "return"
         ELSE "continue"
    ELSE "continue"

\* a faulty variant: the status FAILED is an error
poll_step_failed_raises(resp) ==
    IF ~ _request_status_test(resp, PollStatuses) THEN "RuntimeError"
    ELSE IF resp.status = "FAILED" THEN "RuntimeError"
    ELSE IF resp.status \in {"PROCESSED"}
    THEN IF resp.data = "absent" THEN "KeyError"
         ELSE IF resp.data # "empty" THEN "return"
         ELSE "continue"
    ELSE "continue"

\* one pass of _poll_result_link's loop body on a response: return the data,
\* raise, or sleep and go on
poll_step(resp) ==
    IF ~ _request_status_test(resp, PollStatuses) THEN "RuntimeError"
    ELSE IF resp.status \in {"PROCESSED", "FAILED"}
    THEN IF resp.data = "absent" THEN "KeyError"
         ELSE IF resp.data # "empty" THEN "return"
         ELSE "continue"
    ELSE "continue"

\* a faulty variant: range(max_request + 1)
poll_more_inclusive(done, limit) == done <= limit

\* `for _ in range(max_request)`: is there another pass
poll_more(done, limit) == done < limit

\* a faulty variant: the batch of the remainder is not counted
batch_generator_without_remainder(num_requests, size) ==
    IF size = 0 \/ size > num_requests
    THEN [batch_size |-> num_requests, num_batches |-> 1, label |-> "batch"]
    ELSE LET n == num_requests \div size
         IN  [batch_size |-> size, num_batches |-> n,
              label |-> IF n > 1 THEN "batches" ELSE "unbound"]

\* batch_generator's locals before its loop
batch_generator(num_requests, size) ==
    IF size = 0 \/ size > num_requests
    THEN [batch_size |-> num_requests, num_batches |-> 1, label |-> "batch"]
    ELSE LET n == (num_requests \div size) + (IF num_requests % size # 0 THEN 1 ELSE 0)
         IN  [batch_size |-> size, num_batches |-> n,
              label |-> IF n > 1 THEN "batches" ELSE "unbound"]

\* batch_generator's bounds of batch b, and the indices call_generator yields
bounds(b) == <<b * plan.batch_size, (b + 1) * plan.batch_size>>

call_generator(bnds) == { i \in Indices : bnds[1] <= i /\ i < bnds[2] }

\* a faulty variant: the position in the slice, without the batch's offset
call_index_in_slice(bnds, idx) == idx

\* a faulty variant: the index is the sample number of the log lines, from one
call_index_from_one(bnds, idx) == bnds[1] + idx + 1

\* call_generator: the index it hands to the idx-th call of the slice
call_index(bnds, idx) == bnds[1] + idx

InBatch == call_generator(bounds(batch))

\* the batch an index belongs to under the plan
BatchOf(i) == IF plan.batch_size = 0 THEN 0 ELSE i \div plan.batch_size

\* a faulty variant: a timer's callback may run before the first steps still queued
loop_idle_before_first_steps(idxs) == \A j \in idxs : task[j].pc # "polling"

\* the event loop comes to the callbacks of its timers: the first steps that
\* gather queued have run, and no call blocks the loop inside _poll_result_link
loop_idle(idxs) == \A j \in idxs : task[j].pc \notin {"ready", "polling"}

\* asyncio.gather(*batch): raises as soon as one awaitable has raised
gather_raises(idxs) == \E i \in idxs : task[i].pc = "failed"

\* a faulty variant: return_exceptions=True: an awaitable that raised counts as returned
gather_returns_exceptions(idxs) == \A i \in idxs : task[i].pc \in {"done", "failed"}

\* a faulty variant: returns as soon as one awaitable has returned
gather_returns_first(idxs) == \E i \in idxs : task[i].pc = "done"

\* asyncio.gather(*batch): returns once every awaitable has returned
gather_returns(idxs) == \A i \in idxs : task[i].pc = "done"

RECURSIVE SeqOfRange(_, _, _)
SeqOfRange(f, lo, hi) == IF lo >= hi THEN <<>> ELSE <<f[lo]>> \o SeqOfRange(f, lo + 1, hi)

\* asyncio.gather's value: what the awaitables returned, call_async's
\* {index: result}, in the order of the awaitables
gather(bnds) ==
    SeqOfRange([i \in Indices |-> [key |-> task[i].index, value |-> task[i].result]],
               bnds[1], IF bnds[2] < Len(requests) THEN bnds[2] ELSE Len(requests))

\* ------------------------------------------------------------------ actions
\* call_async hands its burst_job_tag to _get_flash_mode; call has none to hand on
tag_passed == IF main = "call" THEN "None" ELSE burst_job_tag

\* the caller's name in _request_status_test's message, from its frame
func_name == IF main = "call" THEN "call" ELSE "call_async"

\* call_async / call up to the first sleep: _get_flash_mode, the submit request,
\* _request_status_test, _get_result_link
submit(i, resp) ==
    LET r == requests[i + 1]
        fm == _get_flash_mode(r.dbs_file_id, r.flash_method, tag_passed)
        req == [mode |-> fm.mode, url |-> fm.url, headers |-> fm.headers,
                data |-> r.input_params, response |-> resp]
        t == [task[i] EXCEPT !.sent = Append(@, req)]
    IN  IF fm.err # "none"
        THEN [task[i] EXCEPT !.pc = "failed", !.err = fm.err, !.msg = fm.msg]
        ELSE IF ~ _request_status_test(resp, {"SUCCESS"})
        THEN [t EXCEPT !.pc = "failed", !.err = "RuntimeError",
                       !.msg = <<"Failure in ", func_name, ". Response: ">>]
        ELSE IF _get_result_link(resp).err # "none"
        THEN [t EXCEPT !.pc = "failed", !.err = _get_result_link(resp).err,
                       !.msg = <<"name 'req' is not defined">>]
        ELSE [t EXCEPT !.pc = "sleeping", !.link = _get_result_link(resp).link]

\* the tasks of a batch run their first step in index order, in one pass of the
\* event loop over its ready queue (call has a single call, outside any batch)
Submit(i, resp) ==
    /\ main \in {"gather", "call"}
    /\ task[i].pc = "ready"
    /\ \A j \in InBatch : task[j].pc = "ready" => i <= j
    /\ task' = [task EXCEPT ![i] = submit(i, resp)]
    /\ gather_exc' = IF gather_exc = "none" THEN submit(i, resp).err ELSE gather_exc
    /\ UNCHANGED <<requests, batch_size, burst_job_tag, max_request, main, plan, batch,
                   result_list, error, poller, attempts, last, out_of_order>>
    /\ UNCHANGED replay
    /\ client_untouched

\* asyncio.sleep(poll_time) (in call: time.sleep) is over: the call enters
\* _poll_result_link, and nothing else runs until it leaves it
Wake(i) ==
    /\ main \in {"gather", "call"}
    /\ task[i].pc = "sleeping"
    /\ loop_idle(InBatch)
    /\ task' = [task EXCEPT ![i].pc = "polling"]
    /\ poller' = i
    /\ attempts' = 0
    /\ last' = NoResponse
    /\ UNCHANGED <<requests, batch_size, burst_job_tag, max_request, main, plan, batch,
                   result_list, error, gather_exc, out_of_order>>
    /\ UNCHANGED replay
    /\ client_untouched

\* the result of call and call_async: the polled data with the submitted request
\* attached
call_result(i, data) ==
    [data |-> data,
     submitted_requests |-> Request(requests[i + 1].flash_method,
                                    requests[i + 1].dbs_file_id,
                                    requests[i + 1].input_params)]

\* one pass of _poll_result_link's loop on the response to its GET
fetch(i, resp) ==
    LET o == poll_step(resp)
        t == [task[i] EXCEPT !.polled = TRUE]
    IN  IF o = "return"
        THEN [t EXCEPT !.pc = "done", !.result = call_result(i, resp.data)]
        ELSE IF o = "continue" THEN t
        ELSE [t EXCEPT !.pc = "failed", !.err = o]

Fetch(i, resp) ==
    /\ main \in {"gather", "call"}
    /\ task[i].pc = "polling"
    /\ poll_more(attempts, max_request)
    /\ attempts' = attempts + 1
    /\ last' = resp
    /\ task' = [task EXCEPT ![i] = fetch(i, resp)]
    /\ gather_exc' = IF gather_exc = "none" THEN fetch(i, resp).err ELSE gather_exc
    /\ out_of_order' = (out_of_order \/
                        (fetch(i, resp).pc = "done" /\
                         \E j \in InBatch : j < i /\ task[j].pc # "done"))
    /\ UNCHANGED <<requests, batch_size, burst_job_tag, max_request, main, plan, batch,
                   result_list, error, poller>>
    /\ UNCHANGED replay
    /\ client_untouched

\* the loop of _poll_result_link is over: RuntimeError("Poll limit exceeded.")
PollLimit(i) ==
    /\ main \in {"gather", "call"}
    /\ task[i].pc = "polling"
    /\ ~ poll_more(attempts, max_request)
    /\ task' = [task EXCEPT ![i].pc = "failed", ![i].err = "PollLimit"]
    /\ gather_exc' = IF gather_exc = "none" THEN "PollLimit" ELSE gather_exc
    /\ UNCHANGED <<requests, batch_size, burst_job_tag, max_request, main, plan, batch,
                   result_list, error, poller, attempts, last, out_of_order>>
    /\ UNCHANGED replay
    /\ client_untouched

\* process_request_list up to batch_generator's loop: the first next() of the
\* generator computes the plan and logs it, which reads `label`
Begin ==
    /\ main = "start"
    /\ plan' = batch_generator(Len(requests), batch_size)
    /\ IF plan'.label = "unbound"
       THEN main' = "raised" /\ error' = "UnboundLocalError"
       ELSE main' = "batch" /\ error' = error
    /\ UNCHANGED <<requests, batch_size, burst_job_tag, max_request, batch, task,
                   result_list, gather_exc, poller, attempts, last, out_of_order>>
    /\ UNCHANGED replay
    /\ client_untouched

\* collect_results: the generator yields the next batch, asyncio.gather(*batch)
\* creates its coroutines and schedules them
LaunchBatch ==
    /\ main = "batch"
    /\ task' = [i \in Indices |->
                  IF i \in InBatch
                  THEN [task[i] EXCEPT !.pc = "ready",
                                       !.index = call_index(bounds(batch), i - bounds(batch)[1])]
                  ELSE task[i]]
    /\ main' = "gather"
    /\ UNCHANGED <<requests, batch_size, burst_job_tag, max_request, plan, batch,
                   result_list, error, gather_exc, poller, attempts, last, out_of_order>>
    /\ UNCHANGED replay
    /\ client_untouched

\* the gather returns: result_list.extend, then the generator goes on or stops
GatherReturn ==
    /\ main = "gather"
    /\ gather_returns(InBatch)
    /\ result_list' = result_list \o gather(bounds(batch))
    /\ IF bounds(batch)[2] >= Len(requests) \/ batch + 1 >= plan.num_batches
       THEN main' = "finish" /\ batch' = batch
       ELSE main' = "batch" /\ batch' = batch + 1
    /\ poller' = -1 /\ attempts' = 0 /\ last' = NoResponse
    /\ UNCHANGED <<requests, batch_size, burst_job_tag, max_request, plan, task,
                   error, gather_exc, out_of_order>>
    /\ UNCHANGED replay
    /\ client_untouched

\* the gather raises the first exception of its batch; collect_results and
\* run_until_complete pass it on.  The loop stops: what still sleeps never runs.
\* (Either way the frame of the last _poll_result_link is gone by now.)
GatherRaise ==
    /\ main = "gather"
    /\ gather_raises(InBatch)
    /\ loop_idle(InBatch)
    /\ main' = "raised"
    /\ error' = gather_exc
    /\ poller' = -1 /\ attempts' = 0 /\ last' = NoResponse
    /\ UNCHANGED <<requests, batch_size, burst_job_tag, max_request, plan, batch, task,
                   result_list, gather_exc, out_of_order>>
    /\ UNCHANGED replay
    /\ client_untouched

\* log_timer divides by len(requests); then process_request_list returns
Finish ==
    /\ main = "finish"
    /\ IF Len(requests) = 0
       THEN main' = "raised" /\ error' = "ZeroDivisionError"
       ELSE main' = "returned" /\ error' = error
    /\ UNCHANGED <<requests, batch_size, burst_job_tag, max_request, plan, batch, task,
                   result_list, gather_exc, poller, attempts, last, out_of_order>>
    /\ UNCHANGED replay
    /\ client_untouched

\* ------------------------------------------------------- the session's files
NoCleanup ==
    [pc |-> "idle", caller |-> "none", ids |-> <<>>, pos |-> 0, sent |-> <<>>,
     confirmed |-> FALSE, body_exc |-> FALSE, r |-> "", prompts |-> 0,
     arg |-> [none |-> TRUE, ids |-> <<>>]]

\* http counts the HTTP requests the operation has made
NoOp == [op |-> "none", outcome |-> "ok", id |-> 0, keep |-> FALSE, http |-> 0]

\* the files the user had on the cloud before the client was made
OldFiles == {0}

\* the client after __init__: no session_dbs_files attribute yet
SessionInit ==
    /\ interactive_mode \in BOOLEAN
    /\ has_session = FALSE
    /\ session_dbs_files = <<>>
    /\ cloud = OldFiles
    /\ made = <<>>
    /\ epoch = 0
    /\ cl = NoCleanup
    /\ delete_log = <<>>
    /\ last_op = NoOp
    /\ ops = 0

Range(q) == { q[k] : k \in 1 .. Len(q) }

\* the ID the service gives the next file it creates
NextId == Len(made) + 1

\* a response of the DBS endpoints: HTTP status, the JSON's "status" and whether
\* it carries a non-empty file ID
DbsResponse(c, st, id) == [status_code |-> c, status |-> st, has_id |-> id]

UploadResponses ==
    { DbsResponse(200, "UPLOADED", TRUE), DbsResponse(200, "UPLOADED", FALSE),
      DbsResponse(200, "ERROR", FALSE), DbsResponse(500, "UPLOADED", FALSE) }

GenerateResponses ==
    { DbsResponse(200, "SUCCESS", TRUE), DbsResponse(200, "SUCCESS", FALSE),
      DbsResponse(200, "ERROR", FALSE), DbsResponse(500, "SUCCESS", FALSE) }

DeleteResponses ==
    { DbsResponse(200, "SUCCESS", FALSE), DbsResponse(200, "ERROR", FALSE),
      DbsResponse(500, "SUCCESS", FALSE) }

ListResponses == { DbsResponse(200, "absent", FALSE), DbsResponse(500, "absent", FALSE) }

\* generate_dbs_file's arguments: inflows (empty or not), thermo_framework, phases
\* and databanks ("None" when not given)
GenerateInput(i, t, ph, db) ==
    [inflows |-> i, thermo_framework |-> t, phases |-> ph, databanks |-> db]

GenerateInputs ==
    { GenerateInput({"NaCl"}, "None", <<>>, <<"None">>),
      GenerateInput({"NaCl"}, "Aqueous (H+ ion)", <<"liquid1", "vapor">>, <<"XSC">>),
      GenerateInput({}, "None", <<>>, <<"None">>),
      GenerateInput({"NaCl"}, "bogus", <<>>, <<"None">>),
      GenerateInput({"NaCl"}, "None", <<"liquid1", "plasma">>, <<"None">>),
      GenerateInput({"NaCl"}, "None", <<>>, <<"XSC", "PUB">>) }

valid_frameworks == {"MSE (H3O+ ion)", "Aqueous (H+ ion)"}

valid_phases == {"liquid1", "vapor", "solid", "liquid2"}

valid_databanks == {"XSC"}

\* a faulty variant: the databanks are not checked
generate_inputs_ok_but_databanks(inp) ==
    /\ inp.inflows # {}
    /\ inp.thermo_framework # "None" => inp.thermo_framework \in {"MSE (H3O+ ion)", "Aqueous (H+ ion)"}
    /\ Range(inp.phases) \subseteq {"liquid1", "vapor", "solid", "liquid2"}

\* generate_dbs_file's checks of its arguments: TRUE when none raises
generate_inputs_ok(inp) ==
    /\ inp.inflows # {}
    /\ inp.thermo_framework # "None" => inp.thermo_framework \in valid_frameworks
    /\ Range(inp.phases) \subseteq valid_phases
    /\ inp.databanks # <<"None">> => Range(inp.databanks) \subseteq valid_databanks

\* a faulty variant: the file ID is recorded whatever keep_file says
track_always(files, id, keep_file) == Append(files, id)

\* upload_dbs_file / generate_dbs_file: `if not keep_file: append`
track(files, id, keep_file) == IF ~ keep_file THEN Append(files, id) ELSE files

SessionIdle == cl.pc = "idle" /\ ops < MaxOps

\* __enter__
Enter ==
    /\ SessionIdle
    /\ session_dbs_files' = <<>>
    /\ has_session' = TRUE
    /\ epoch' = epoch + 1
    /\ last_op' = [NoOp EXCEPT !.op = "enter"]
    /\ ops' = ops + 1
    /\ UNCHANGED <<interactive_mode, cloud, made, cl, delete_log>>
    /\ UNCHANGED flash_vars

\* what upload_dbs_file and generate_dbs_file do with the response to their
\* POST: the status test, the ID test, then the tracking.  The service has
\* created the file when its response carries an ID.
create(op, resp, target, keep_file) ==
    IF ~ _request_status_test(resp, {target}) \/ ~ resp.has_id
    THEN /\ last_op' = [op |-> op, outcome |-> "RuntimeError", id |-> 0, keep |-> keep_file,
                      http |-> 1]
         /\ UNCHANGED <<session_dbs_files, cloud, made>>
    ELSE /\ cloud' = cloud \cup {NextId}
         /\ made' = Append(made, [keep |-> keep_file, epoch |-> epoch])
         /\ IF ~ keep_file /\ ~ has_session
            THEN /\ last_op' = [op |-> op, outcome |-> "AttributeError", id |-> NextId,
                                keep |-> keep_file, http |-> 1]
                 /\ UNCHANGED session_dbs_files
            ELSE /\ last_op' = [op |-> op, outcome |-> "ok", id |-> NextId, keep |-> keep_file,
                                http |-> 1]
                 /\ session_dbs_files' = track(session_dbs_files, NextId, keep_file)

\* upload_dbs_file(dbs_file_path, keep_file); path_ok: the file can be opened
Upload(path_ok, keep_file, resp) ==
    /\ SessionIdle
    /\ Len(made) < MaxFiles
    /\ IF ~ path_ok
       THEN /\ last_op' = [op |-> "upload", outcome |-> "FileNotFoundError", id |-> 0,
                           keep |-> keep_file, http |-> 0]
            /\ UNCHANGED <<session_dbs_files, cloud, made>>
       ELSE create("upload", resp, "UPLOADED", keep_file)
    /\ ops' = ops + 1
    /\ UNCHANGED <<interactive_mode, has_session, epoch, cl, delete_log>>
    /\ UNCHANGED flash_vars

\* generate_dbs_file(inflows, thermo_framework, model_name, phases, databanks, keep_file)
Generate(inp, keep_file, resp) ==
    /\ SessionIdle
    /\ Len(made) < MaxFiles
    /\ IF ~ generate_inputs_ok(inp)
       THEN /\ last_op' = [op |-> "generate", outcome |-> "RuntimeError:inputs", id |-> 0,
                           keep |-> keep_file, http |-> 0]
            /\ UNCHANGED <<session_dbs_files, cloud, made>>
       ELSE create("generate", resp, "SUCCESS", keep_file)
    /\ ops' = ops + 1
    /\ UNCHANGED <<interactive_mode, has_session, epoch, cl, delete_log>>
    /\ UNCHANGED flash_vars

\* the answers a user may type at the prompt
Answers == {"y", "Y", "", "n", "N", "yes", "no"}

\* a yes and a no among them
PlainAnswers == {"y", "n"}

\* _prompt: input() in interactive mode, else the default
prompt(answer, default) == IF interactive_mode THEN answer ELSE default

\* dbs_file_cleanup: `(r.lower() == "y") or (r == "")`
confirms(r) == r \in {"y", "Y", ""}

RECURSIVE SortedSeq(_)
SortedSeq(S) ==
    IF S = {} THEN <<>>
    ELSE LET m == CHOOSE x \in S : \A y \in S : x <= y
         IN  <<m>> \o SortedSeq(S \ {m})

\* the dbs_file_ids argument of dbs_file_cleanup: None, or a list of IDs
NoneArg == [none |-> TRUE, ids |-> <<>>]

ListArg(ids) == [none |-> FALSE, ids |-> ids]

\* a faulty variant: `if not dbs_file_ids`, an empty list counts as None
files_to_delete_if_falsy(arg, listing) ==
    IF arg.none \/ arg.ids = <<>> THEN listing ELSE arg.ids

\* `if dbs_file_ids is None: dbs_file_ids = self.get_user_dbs_file_ids()`
files_to_delete(arg, listing) == IF arg.none THEN listing ELSE arg.ids

\* dbs_file_cleanup from its prompt on: without a confirmation it returns
cleanup(caller, arg, answer, body_exc) ==
    LET r == prompt(answer, "y")
        c == confirms(r)
    IN  /\ cl' = [pc |-> IF c THEN "deleting" ELSE "end", caller |-> caller,
                  ids |-> files_to_delete(arg, SortedSeq(cloud)),
                  pos |-> 0, sent |-> <<>>, confirmed |-> c, body_exc |-> body_exc,
                  r |-> r, prompts |-> IF interactive_mode THEN 1 ELSE 0, arg |-> arg]
        /\ last_op' = [NoOp EXCEPT !.op = caller, !.outcome = "running",
                                   !.http = IF caller = "cleanup" THEN 1 ELSE 0]

\* __exit__(exc_type, ...): dbs_file_cleanup(self.session_dbs_files); body_exc
\* tells whether the body of the with block raised
Exit(body_exc, answer) ==
    /\ SessionIdle
    /\ IF ~ has_session
       THEN /\ last_op' = [NoOp EXCEPT !.op = "exit", !.outcome = "AttributeError"]
            /\ cl' = cl
       ELSE cleanup("exit", ListArg(session_dbs_files), answer, body_exc)
    /\ ops' = ops + 1
    /\ UNCHANGED <<interactive_mode, has_session, session_dbs_files, cloud, made, epoch,
                   delete_log>>
    /\ UNCHANGED flash_vars

\* dbs_file_cleanup() with dbs_file_ids None: get_user_dbs_file_ids lists the
\* user's files on the cloud
CleanupAll(resp, answer) ==
    /\ SessionIdle
    /\ IF ~ _request_status_test(resp, {})
       THEN /\ last_op' = [NoOp EXCEPT !.op = "cleanup", !.outcome = "RuntimeError", !.http = 1]
            /\ cl' = cl
       ELSE cleanup("cleanup", NoneArg, answer, FALSE)
    /\ ops' = ops + 1
    /\ UNCHANGED <<interactive_mode, has_session, session_dbs_files, cloud, made, epoch,
                   delete_log>>
    /\ UNCHANGED flash_vars

\* a faulty variant: __exit__ returns True, the body's exception is swallowed
ends_suppressing(raised) == IF raised THEN "RuntimeError" ELSE "ok"

\* lists of file IDs a caller may hand to dbs_file_cleanup
GivenLists == {<<>>, <<1>>, <<2, 1>>}

\* dbs_file_cleanup(dbs_file_ids) with a list: no listing is fetched
CleanupGiven(ids, answer) ==
    /\ SessionIdle
    /\ cleanup("given", ListArg(ids), answer, FALSE)
    /\ ops' = ops + 1
    /\ UNCHANGED <<interactive_mode, has_session, session_dbs_files, cloud, made, epoch,
                   delete_log>>
    /\ UNCHANGED flash_vars

\* how the operation that called dbs_file_cleanup ends: __exit__ returns False,
\* so an exception of the with block's body goes on to the caller
ends(raised) ==
    IF raised THEN "RuntimeError"
    ELSE IF cl.caller = "exit" /\ cl.body_exc THEN "BodyError"
    ELSE "ok"

\* one pass of dbs_file_cleanup's loop: the DELETE request and its status test,
\* which raises on a response that is not a 200 with status SUCCESS
Delete(resp) ==
    /\ cl.pc = "deleting"
    /\ cl.pos < Len(cl.ids)
    /\ LET id == cl.ids[cl.pos + 1]
           ok == _request_status_test(resp, {"SUCCESS"})
       IN  /\ delete_log' = Append(delete_log, id)
           /\ cloud' = IF ok THEN cloud \ {id} ELSE cloud
           /\ cl' = [cl EXCEPT !.pos = @ + 1, !.sent = Append(@, id),
                                !.pc = IF ok THEN "deleting" ELSE "idle"]
           /\ last_op' = IF ok THEN [last_op EXCEPT !.http = @ + 1]
                         ELSE [last_op EXCEPT !.http = @ + 1, !.outcome = ends(TRUE)]
    /\ UNCHANGED <<interactive_mode, has_session, session_dbs_files, made, epoch, ops>>
    /\ UNCHANGED flash_vars

\* dbs_file_cleanup returns: its loop is over, or the prompt was not confirmed
CleanupEnd ==
    /\ \/ cl.pc = "deleting" /\ cl.pos = Len(cl.ids)
       \/ cl.pc = "end"
    /\ cl' = [cl EXCEPT !.pc = "idle"]
    /\ last_op' = [last_op EXCEPT !.outcome = ends(FALSE)]
    /\ UNCHANGED <<interactive_mode, has_session, session_dbs_files, cloud, made, epoch,
                   delete_log, ops>>
    /\ UNCHANGED flash_vars

\* no request runs while the session's files are at work
FlashIdle ==
    /\ requests = <<>>
    /\ batch_size = 0
    /\ burst_job_tag = "None"
    /\ max_request = 0
    /\ main = "idle"
    /\ plan = NoPlan
    /\ batch = 0
    /\ task = [i \in Indices |-> NewTask]
    /\ result_list = <<>>
    /\ error = "none"
    /\ gather_exc = "none"
    /\ poller = -1
    /\ attempts = 0
    /\ last = NoResponse
    /\ out_of_order = FALSE
    /\ replay = NoReplay

SessionStart == FlashIdle /\ SessionInit

SessionNext ==
    \/ Enter
    \/ \E path_ok, keep_file \in BOOLEAN, resp \in UploadResponses :
           Upload(path_ok, keep_file, resp)
    \/ \E inp \in GenerateInputs, keep_file \in BOOLEAN, resp \in GenerateResponses :
           Generate(inp, keep_file, resp)
    \/ \E body_exc \in BOOLEAN, answer \in PlainAnswers : Exit(body_exc, answer)
    \/ \E resp \in ListResponses, answer \in PlainAnswers : CleanupAll(resp, answer)
    \/ \E resp \in DeleteResponses : Delete(resp)
    \/ CleanupEnd

SessionSpec == SessionStart /\ [][SessionNext]_vars

\* ---------------------------------------------------- the prompt of a cleanup
\* sessions whose uploads succeed, ended by a cleanup with any answer typed
PromptNext ==
    \/ Enter
    \/ \E keep_file \in BOOLEAN :
           Upload(TRUE, keep_file, DbsResponse(200, "UPLOADED", TRUE))
    \/ \E answer \in Answers : Exit(FALSE, answer)
    \/ \E resp \in ListResponses, answer \in Answers : CleanupAll(resp, answer)
    \/ \E resp \in DeleteResponses : Delete(resp)
    \/ CleanupEnd

PromptSpec == SessionStart /\ [][PromptNext]_vars

\* -------------------------------------------------- what a cleanup deletes
\* sessions whose uploads succeed, with cleanups of all the user's files, of a
\* given list, and by teardown
CleanupNext ==
    \/ Enter
    \/ \E keep_file \in BOOLEAN :
           Upload(TRUE, keep_file, DbsResponse(200, "UPLOADED", TRUE))
    \/ \E answer \in PlainAnswers : Exit(FALSE, answer)
    \/ \E resp \in ListResponses, answer \in PlainAnswers : CleanupAll(resp, answer)
    \/ \E ids \in GivenLists, answer \in PlainAnswers : CleanupGiven(ids, answer)
    \/ \E resp \in DeleteResponses : Delete(resp)
    \/ CleanupEnd

CleanupSpec == SessionStart /\ [][CleanupNext]_vars

\* ------------------------------------------------------- the life of a session
\* __enter__, upload_dbs_file, generate_dbs_file and __exit__ in any order on one
\* client: a repeated __exit__ and an __enter__ inside a session are among them
LifecycleNext ==
    \/ Enter
    \/ \E keep_file \in BOOLEAN, resp \in UploadResponses : Upload(TRUE, keep_file, resp)
    \/ \E keep_file \in BOOLEAN, resp \in GenerateResponses :
           Generate(GenerateInput({"NaCl"}, "None", <<>>, <<"None">>), keep_file, resp)
    \/ \E body_exc \in BOOLEAN, answer \in PlainAnswers : Exit(body_exc, answer)
    \/ \E resp \in DeleteResponses : Delete(resp)
    \/ CleanupEnd

LifecycleSpec == SessionStart /\ [][LifecycleNext]_vars

\* ------------------------------------------------------ sessions of generated files
\* sessions in which files are generated only, ended by their teardown
GenerateNext ==
    \/ Enter
    \/ \E inp \in GenerateInputs, keep_file \in BOOLEAN, resp \in GenerateResponses :
           Generate(inp, keep_file, resp)
    \/ \E answer \in PlainAnswers : Exit(FALSE, answer)
    \/ \E resp \in DeleteResponses : Delete(resp)
    \/ CleanupEnd

GenerateSpec == SessionStart /\ [][GenerateNext]_vars

\* ------------------------------------------------- process_request_list runs
RequestLists(pool) == UNION { [1 .. n -> pool] : n \in 0 .. MaxRequests }

Init ==
    /\ requests \in RequestLists(ValidRequests \cup {Request("bogus-method", "abc", "p1")})
    /\ batch_size \in 0 .. (MaxRequests + 1)
    /\ burst_job_tag = "None"
    /\ max_request \in 1 .. MaxPoll
    /\ main = "start"
    /\ plan = NoPlan
    /\ batch = 0
    /\ task = [i \in Indices |-> NewTask]
    /\ result_list = <<>>
    /\ error = "none"
    /\ gather_exc = "none"
    /\ poller = -1
    /\ attempts = 0
    /\ last = NoResponse
    /\ out_of_order = FALSE
    /\ replay = NoReplay
    /\ SessionInit
    /\ interactive_mode = TRUE

BatchSubmitResponses ==
    { SubmitResponse(200, "SUCCESS", TRUE, "IN QUEUE", "link"),
      SubmitResponse(500, "SUCCESS", TRUE, "IN QUEUE", "link") }

BatchPollResponses ==
    { PollResponse(200, "IN PROGRESS", "empty"),
      PollResponse(200, "PROCESSED", "d1"),
      PollResponse(200, "FAILED", "empty"),
      PollResponse(500, "PROCESSED", "d1") }

Next ==
    \/ Begin
    \/ LaunchBatch
    \/ \E i \in Indices, resp \in BatchSubmitResponses : Submit(i, resp)
    \/ \E i \in Indices : Wake(i)
    \/ \E i \in Indices, resp \in BatchPollResponses : Fetch(i, resp)
    \/ \E i \in Indices : PollLimit(i)
    \/ GatherReturn
    \/ GatherRaise
    \/ Finish

Spec == Init /\ [][Next]_vars

\* ------------------------------------------------------------------ call runs
\* call returns its result or raises what its steps raised
CallEnd ==
    /\ main = "call"
    /\ task[0].pc \in {"done", "failed"}
    /\ main' = IF task[0].pc = "done" THEN "returned" ELSE "raised"
    /\ error' = task[0].err
    /\ UNCHANGED <<requests, batch_size, burst_job_tag, max_request, plan, batch, task,
                   result_list, gather_exc, poller, attempts, last, out_of_order>>
    /\ UNCHANGED replay
    /\ client_untouched

CallInit ==
    /\ requests \in [1 .. 1 -> ValidRequests \cup InvalidRequests]
    /\ batch_size = 0
    /\ burst_job_tag = "None"
    /\ max_request \in 0 .. MaxPoll
    /\ main = "call"
    /\ plan = NoPlan
    /\ batch = 0
    /\ task = [i \in Indices |-> [NewTask EXCEPT !.pc = "ready"]]
    /\ result_list = <<>>
    /\ error = "none"
    /\ gather_exc = "none"
    /\ poller = -1
    /\ attempts = 0
    /\ last = NoResponse
    /\ out_of_order = FALSE
    /\ replay = NoReplay
    /\ SessionInit
    /\ interactive_mode = TRUE

CallNext ==
    \/ \E resp \in SubmitResponses : Submit(0, resp)
    \/ Wake(0)
    \/ \E resp \in PollResponses : Fetch(0, resp)
    \/ PollLimit(0)
    \/ CallEnd

CallSpec == CallInit /\ [][CallNext]_vars

\* ------------------------------------------------- one request, either entry
\* one request of every supported method, and the malformed ones
MethodRequests ==
    { Request(m, "abc", "p1") : m \in valid_get_flashes \cup valid_post_flashes }

BurstTags == {"None", "42"}

\* a single request handed to call, or to process_request_list as a list of one
\* with or without a burst tag
EntryInit ==
    /\ requests \in [1 .. 1 -> MethodRequests \cup InvalidRequests]
    /\ batch_size = 0
    /\ main \in {"call", "start"}
    /\ burst_job_tag \in (IF main = "call" THEN {"None"} ELSE BurstTags)
    /\ max_request \in 1 .. MaxPoll
    /\ plan = NoPlan
    /\ batch = 0
    /\ task = [i \in Indices |->
                 IF main = "call" THEN [NewTask EXCEPT !.pc = "ready"] ELSE NewTask]
    /\ result_list = <<>>
    /\ error = "none"
    /\ gather_exc = "none"
    /\ poller = -1
    /\ attempts = 0
    /\ last = NoResponse
    /\ out_of_order = FALSE
    /\ replay = NoReplay
    /\ SessionInit
    /\ interactive_mode = TRUE

EntryNext ==
    \/ Begin
    \/ LaunchBatch
    \/ \E resp \in SubmitResponses : Submit(0, resp)
    \/ Wake(0)
    \/ \E resp \in PollResponses : Fetch(0, resp)
    \/ PollLimit(0)
    \/ GatherReturn
    \/ GatherRaise
    \/ Finish
    \/ CallEnd

EntrySpec == EntryInit /\ [][EntryNext]_vars

\* -------------------------------------------------- a request inside a session
\* the client's thread is outside any flash request: none has started, or the
\* one of this run has ended
OutsideRequest ==
    \/ main \in {"returned", "raised"}
    \/ main \in {"start", "call"} /\ \A i \in Indices : task[i].pc \in {"new", "ready"}

\* one request, through either entry point, among the operations of a session
WorkInit ==
    /\ requests \in [1 .. 1 -> ValidRequests \cup {Request("bogus-method", "abc", "p1")}]
    /\ batch_size = 0
    /\ main \in {"call", "start"}
    /\ burst_job_tag = "None"
    /\ max_request \in 1 .. MaxPoll
    /\ plan = NoPlan
    /\ batch = 0
    /\ task = [i \in Indices |->
                 IF main = "call" THEN [NewTask EXCEPT !.pc = "ready"] ELSE NewTask]
    /\ result_list = <<>>
    /\ error = "none"
    /\ gather_exc = "none"
    /\ poller = -1
    /\ attempts = 0
    /\ last = NoResponse
    /\ out_of_order = FALSE
    /\ replay = NoReplay
    /\ SessionInit
    /\ interactive_mode = FALSE

WorkNext ==
    \/ OutsideRequest /\ Enter
    \/ OutsideRequest /\ \E keep_file \in BOOLEAN :
           Upload(TRUE, keep_file, DbsResponse(200, "UPLOADED", TRUE))
    \/ OutsideRequest /\ \E keep_file \in BOOLEAN :
           Generate(GenerateInput({"NaCl"}, "None", <<>>, <<"None">>), keep_file,
                    DbsResponse(200, "SUCCESS", TRUE))
    \/ OutsideRequest /\ Exit(FALSE, "y")
    \/ \E resp \in DeleteResponses : Delete(resp)
    \/ CleanupEnd
    \/ cl.pc = "idle" /\ Begin
    \/ cl.pc = "idle" /\ LaunchBatch
    \/ cl.pc = "idle" /\ \E resp \in BatchSubmitResponses : Submit(0, resp)
    \/ cl.pc = "idle" /\ Wake(0)
    \/ cl.pc = "idle" /\ \E resp \in BatchPollResponses : Fetch(0, resp)
    \/ cl.pc = "idle" /\ PollLimit(0)
    \/ cl.pc = "idle" /\ GatherReturn
    \/ cl.pc = "idle" /\ GatherRaise
    \/ cl.pc = "idle" /\ Finish
    \/ cl.pc = "idle" /\ CallEnd

WorkSpec == WorkInit /\ [][WorkNext]_vars

\* ------------------------------------- the same request through both entries
\* the answers the service gives when asked again: to the submit call, and to the
\* k-th GET of the result link
ReplaySubmitResponses ==
    BatchSubmitResponses \cup { SubmitResponse(200, "SUCCESS", TRUE, "IN QUEUE", "") }

ReplayPollResponses ==
    BatchPollResponses \cup { PollResponse(200, "IN QUEUE", "absent") }

\* call(**r) on a service whose answers are fixed beforehand
ReplayInit ==
    /\ requests \in [1 .. 1 -> ValidRequests \cup {Request("bogus-method", "abc", "p1")}]
    /\ batch_size = 0
    /\ main = "call"
    /\ burst_job_tag = "None"
    /\ max_request \in 1 .. MaxPoll
    /\ plan = NoPlan
    /\ batch = 0
    /\ task = [i \in Indices |-> [NewTask EXCEPT !.pc = "ready"]]
    /\ result_list = <<>>
    /\ error = "none"
    /\ gather_exc = "none"
    /\ poller = -1
    /\ attempts = 0
    /\ last = NoResponse
    /\ out_of_order = FALSE
    /\ replay \in [submit : ReplaySubmitResponses,
                   polls : [1 .. MaxPoll -> ReplayPollResponses],
                   first : {NoRun}]
    /\ SessionInit
    /\ interactive_mode = TRUE

\* call has ended; the caller hands the same request to process_request_list as
\* a list of one, with or without a burst tag, and the service answers as before
Again ==
    /\ main \in {"returned", "raised"}
    /\ ~ replay.first.done
    /\ replay' = [replay EXCEPT !.first =
                    [done |-> TRUE, sent |-> task[0].sent, link |-> task[0].link,
                     gets |-> attempts, raised |-> (main = "raised"),
                     value |-> task[0].result]]
    /\ burst_job_tag' \in BurstTags
    /\ main' = "start"
    /\ task' = [i \in Indices |-> NewTask]
    /\ error' = "none"
    /\ gather_exc' = "none"
    /\ poller' = -1 /\ attempts' = 0 /\ last' = NoResponse
    /\ UNCHANGED <<requests, batch_size, max_request, plan, batch, result_list,
                   out_of_order>>
    /\ client_untouched

ReplayNext ==
    \/ Submit(0, replay.submit)
    \/ Wake(0)
    \/ attempts < MaxPoll /\ Fetch(0, replay.polls[attempts + 1])
    \/ PollLimit(0)
    \/ CallEnd
    \/ Again
    \/ Begin
    \/ LaunchBatch
    \/ GatherReturn
    \/ GatherRaise
    \/ Finish

ReplaySpec == ReplayInit /\ [][ReplayNext]_vars

\* ------------------------------------------------------------------- claims
Finished == main \in {"returned", "raised"}

NoCallFailed == \A i \in Indices : task[i].err = "none"

\* C1: for a non-empty list of N requests and any batch_size >= 1 or unset, when
\* no request's submit or poll fails, process_request_list returns exactly N
\* results, the i-th recording requests[i] as its submitted request
C1_ReturnsOneResultPerRequest ==
    (Finished /\ Len(requests) >= 1 /\ NoCallFailed)
        => /\ main = "returned"
           /\ Len(result_list) = Len(requests)
           /\ \A i \in Indices :
                  result_list[i + 1].value.submitted_requests = requests[i + 1]

\* C2: with batch_size >= N the run is the run with batch_size unset: the same
\* single batch of all N requests, planned without an error
C2_LargeBatchSizeIsNoBatching ==
    (main # "start" /\ batch_size >= Len(requests))
        => /\ plan = batch_generator(Len(requests), 0)
           /\ error # "UnboundLocalError"

\* C3: the list process_request_list builds and returns is in input order: its
\* i-th element is the mapping whose key is i and whose value is the result of
\* request i, whatever order the requests finished in
C3_ResultsInInputOrder ==
    /\ \A k \in 1 .. Len(result_list) :
           /\ result_list[k].key = k - 1
           /\ result_list[k].value = task[k - 1].result
    /\ main = "returned" => Len(result_list) = Len(requests)

C3_Witness ==
    /\ main = "returned"
    /\ out_of_order
    /\ plan.num_batches >= 2

\* C4: once the request/poll cycle of one request has failed, no result list is
\* returned, the exception raised to the caller is that of a failed request,
\* and no request of a later batch is started
C4_FailureAbortsTheRun ==
    \A i \in Indices :
        task[i].pc = "failed"
            => /\ main \in {"gather", "call", "raised"}
               /\ main = "raised" => \E k \in Indices : task[k].pc = "failed" /\ error = task[k].err
               /\ \A j \in Indices : BatchOf(j) > BatchOf(i) => task[j].pc = "new"

C4_Witness ==
    /\ main = "raised"
    /\ \E i, j, k \in Indices :
           /\ BatchOf(i) < BatchOf(j) /\ BatchOf(j) < BatchOf(k)
           /\ task[i].pc = "done" /\ task[j].pc = "failed" /\ task[k].pc = "new"

\* C5: a request of a batch is submitted only when every request of every
\* earlier batch has finished its submit/poll cycle
C5_BatchesRunOneAfterAnother ==
    \A i, j \in Indices :
        (BatchOf(i) < BatchOf(j) /\ task[j].pc \notin {"new", "ready"})
            => task[i].pc = "done"

C5_Witness ==
    /\ plan.batch_size >= 2
    /\ \E j \in Indices : BatchOf(j) >= 1 /\ task[j].pc = "sleeping"

\* a teardown that has ended: __exit__ ran dbs_file_cleanup to its end
ExitEnded == last_op.op = "exit" /\ cl.caller = "exit" /\ cl.pc = "idle"

\* C6: teardown is best-effort: with the deletion confirmed, teardown sends every
\* tracked file to the deletion endpoint, also after a failed deletion, and
\* does not raise
C6_TeardownIsBestEffort ==
    (ExitEnded /\ cl.confirmed)
        => /\ cl.sent = cl.ids
           /\ last_op.outcome # "RuntimeError"

\* C7: in a session the tracked list holds exactly the files made in it without
\* keep_file; a confirmed teardown whose deletions all succeed has sent exactly
\* the tracked IDs to the deletion endpoint; no teardown sends a kept file
C7_TrackedUnlessKept ==
    /\ has_session =>
           /\ Range(session_dbs_files) =
                  { id \in 1 .. Len(made) : made[id].epoch = epoch /\ ~ made[id].keep }
           /\ Cardinality(Range(session_dbs_files)) = Len(session_dbs_files)
    /\ (last_op.op \in {"upload", "generate"} /\ last_op.outcome = "ok" /\ has_session)
           => (last_op.id \in Range(session_dbs_files) <=> ~ last_op.keep)
    /\ (ExitEnded /\ cl.confirmed /\ last_op.outcome # "RuntimeError")
           => cl.sent = session_dbs_files
    /\ cl.caller = "exit" =>
           \A k \in 1 .. Len(cl.sent) :
               cl.sent[k] \in 1 .. Len(made) /\ ~ made[cl.sent[k]].keep

C7_Witness ==
    /\ ExitEnded
    /\ cl.confirmed
    /\ last_op.outcome = "ok"
    /\ Len(cl.sent) >= 2
    /\ \E id \in 1 .. Len(made) : made[id].keep /\ made[id].epoch = epoch

\* a poll response that ends the poll with a result
Qualifies(resp) ==
    /\ resp.status_code = 200
    /\ resp.status \in {"PROCESSED", "FAILED"}
    /\ resp.data \notin {"absent", "empty"}

\* a poll response with a terminal status and an empty data payload
TerminalEmpty(resp) ==
    /\ resp.status_code = 200
    /\ resp.status \in {"PROCESSED", "FAILED"}
    /\ resp.data = "empty"

\* C8: _poll_result_link makes at most max_request GETs, and raises the poll
\* limit error only after exactly max_request of them
C8_PollIsBounded ==
    /\ attempts <= max_request
    /\ \A i \in Indices : task[i].err = "PollLimit" => (poller = i => attempts = max_request)

C8_Witness ==
    /\ poller = 0
    /\ task[0].err = "PollLimit"
    /\ attempts = max_request
    /\ attempts >= 2
    /\ last.status \in {"IN QUEUE", "IN PROGRESS"}

\* C9: when the response to the k-th GET is the first with a terminal status and
\* a non-empty data payload, _poll_result_link returns that data after these k
\* GETs, and makes no GET after it
C9_ReturnsFirstQualifyingData ==
    /\ [](poller # -1 /\ Qualifies(last)
            => /\ task[poller].pc = "done"
               /\ task[poller].result.data = last.data
               /\ 1 <= attempts /\ attempts <= max_request)
    /\ [][poller # -1 /\ Qualifies(last) => UNCHANGED <<attempts, last>>]_vars

C9_Witness ==
    /\ poller = 0
    /\ task[0].pc = "done"
    /\ Qualifies(last)
    /\ attempts >= 2

\* C10: a response with a terminal status and an empty data payload neither ends
\* the poll nor raises: the poll goes on, and ends in the poll limit error when
\* that was its last attempt
C10_TerminalEmptyKeepsPolling ==
    (poller # -1 /\ TerminalEmpty(last))
        => \/ task[poller].pc = "polling"
           \/ /\ task[poller].pc = "failed"
              /\ task[poller].err = "PollLimit"
              /\ attempts = max_request

C10_Witness ==
    /\ poller = 0
    /\ TerminalEmpty(last)
    /\ task[0].pc = "polling"
    /\ attempts < max_request

\* a poll response that is not HTTP 200 with one of the four known statuses
InvalidPoll(resp) ==
    \/ resp.status_code # 200
    \/ resp.status \notin {"IN QUEUE", "IN PROGRESS", "PROCESSED", "FAILED"}

\* C11: a poll response whose status is absent or unknown, or whose HTTP status
\* is not 200, fails _poll_result_link at once with a RuntimeError: no further
\* GET of the result link is made, even when attempts remain
C11_InvalidPollFailsAtOnce ==
    /\ [](poller # -1 /\ attempts >= 1 /\ InvalidPoll(last)
            => /\ task[poller].pc = "failed"
               /\ task[poller].err = "RuntimeError")
    /\ [][poller # -1 /\ attempts >= 1 /\ InvalidPoll(last)
            => UNCHANGED <<attempts, last>>]_vars

C11_Witness ==
    /\ poller = 0
    /\ attempts >= 1
    /\ attempts < max_request
    /\ InvalidPoll(last)
    /\ last.status_code = 200
    /\ task[0].pc = "failed"

\* a call that has started: its first step has run
Started(i) == task[i].pc \notin {"new", "ready"}

\* C12: a request whose flash_method or dbs_file_id is empty fails, in call and
\* in call_async, with an IOError before any HTTP call is made for it: no
\* submit request, no GET of a result link
C12_EmptyArgumentFailsBeforeHttp ==
    \A i \in Indices :
        (Started(i) /\ (requests[i + 1].flash_method = "" \/ requests[i + 1].dbs_file_id = ""))
            => /\ task[i].pc = "failed"
               /\ task[i].err = "IOError"
               /\ task[i].sent = <<>>
               /\ ~ task[i].polled
               /\ poller # i

C12_Witness ==
    /\ main = "raised"
    /\ error = "IOError"
    /\ requests[1].flash_method = "isothermal"
    /\ requests[1].dbs_file_id = ""
    /\ task[0].sent = <<>>

\* the five supported flash methods, as the claims name them
SupportedMethods ==
    {"corrosion-contact-surface", "chemistry-info", "isothermal", "corrosion-rates",
     "wateranalysis"}

\* C13: for a non-empty flash method outside the five supported ones (and a file
\* ID given) _get_flash_mode fails with an error, and the text of that error
\* lists the valid method names
C13_UnsupportedMethodErrorListsValid ==
    \A i \in Indices :
        (/\ Started(i)
         /\ requests[i + 1].dbs_file_id # ""
         /\ requests[i + 1].flash_method \notin SupportedMethods \cup {""})
            => /\ task[i].pc = "failed"
               /\ task[i].err = "RuntimeError"
               /\ task[i].sent = <<>>
               /\ \A name \in SupportedMethods : name \in Range(task[i].msg)

\* a call whose request names a supported method and a file
Resolvable(i) ==
    /\ requests[i + 1].flash_method \in SupportedMethods
    /\ requests[i + 1].dbs_file_id # ""

\* C14: a read-style method resolves to GET on <engine_url>/file/<id>/<method>
\* with the base headers, a compute-style method to POST on
\* <engine_url>/flash/<id>/<method> with the JSON content-type header layered
\* on the base headers; the submit request is made with what was resolved
C14_MethodResolvesToVerbUrlHeaders ==
    \A i \in Indices :
        (Started(i) /\ Resolvable(i))
            => LET r == requests[i + 1]
                   read == r.flash_method \in {"corrosion-contact-surface", "chemistry-info"}
               IN  /\ Len(task[i].sent) = 1
                   /\ task[i].sent[1].mode = IF read THEN "GET" ELSE "POST"
                   /\ SubSeq(task[i].sent[1].url, 1, 5) =
                          <<"engine_url", IF read THEN "/file/" ELSE "/flash/",
                            r.dbs_file_id, "/", r.flash_method>>
                   /\ read => Len(task[i].sent[1].url) = 5
                   /\ task[i].sent[1].headers =
                          IF read THEN {"Authorization"}
                          ELSE {"Authorization", "Content-Type: application/json"}

C14_Witness ==
    /\ Started(0)
    /\ requests[1].flash_method = "corrosion-rates"
    /\ Len(task[0].sent) = 1
    /\ task[0].sent[1].mode = "POST"
    /\ "Authorization" \in task[0].sent[1].headers
    /\ task[0].sent[1].response.status_code = 200

\* C15: the URL carries burst=watertap_burst_<tag> exactly when the method is
\* compute-style (POST) and a burst tag was supplied; it is then the whole of
\* the query string
C15_BurstOnlyOnTaggedPost ==
    \A i \in Indices :
        (Started(i) /\ Resolvable(i))
            => LET url == task[i].sent[1].url
                   tagged == task[i].sent[1].mode = "POST" /\ burst_job_tag # "None"
               IN  /\ ("burst=watertap_burst_" \in Range(url)) <=> tagged
                   /\ tagged => SubSeq(url, 6, Len(url)) =
                                    <<"?", "burst=watertap_burst_", burst_job_tag>>
                   /\ ~ tagged => Len(url) = 5

C15_Witness ==
    /\ Started(0)
    /\ burst_job_tag = "42"
    /\ Len(task[0].sent) = 1
    /\ task[0].sent[1].mode = "POST"
    /\ task[0].sent[1].url =
           <<"engine_url", "/flash/", "abc", "/", "wateranalysis", "?",
             "burst=watertap_burst_", "42">>

\* a dbs_file_cleanup that has ended, by its return or by an exception
CleanupEnded == cl.caller # "none" /\ cl.pc = "idle"

\* C16: in interactive mode dbs_file_cleanup asks one prompt for the whole set:
\* on 'y' in any case or an empty answer every listed file is sent to the
\* deletion endpoint, on any other answer none is; with interactive mode off
\* the answer defaults to yes and every listed file is sent
C16_OnePromptGatesTheDeletion ==
    CleanupEnded
        => IF interactive_mode
           THEN /\ cl.prompts = 1
                /\ IF cl.r \in {"y", "Y", ""} THEN cl.sent = cl.ids ELSE cl.sent = <<>>
           ELSE cl.sent = cl.ids

\* request i sleeps between two attempts of its poll: one GET is answered, another
\* is to come
BetweenPolls(i) ==
    /\ poller = i
    /\ task[i].pc = "polling"
    /\ attempts >= 1
    /\ attempts < max_request

\* C17: the sleep between two poll attempts of a request is a suspension point:
\* while the request waits there, another request of its batch that is ready
\* to poll can start its own poll
C17_PollSleepYields ==
    \A i, j \in InBatch :
        (main = "gather" /\ i # j /\ BetweenPolls(i) /\ task[j].pc = "sleeping")
            => ENABLED Wake(j)

\* C18: a poll response with status FAILED and a non-empty data payload ends the
\* poll as PROCESSED does: the call returns that data with the submitted
\* request attached, and neither call nor call_async nor process_request_list
\* raises: the result of the one request is what the entry point returns
C18_FailedWithDataIsAResult ==
    /\ (/\ poller # -1
         /\ last.status_code = 200
         /\ last.status = "FAILED"
         /\ last.data \notin {"absent", "empty"})
            => /\ task[poller].pc = "done"
               /\ task[poller].err = "none"
               /\ task[poller].result.data = last.data
               /\ task[poller].result.submitted_requests = requests[poller + 1]
    /\ \A i \in Indices :
           task[i].pc = "done"
               => /\ main # "raised"
                  /\ error = "none"
                  /\ gather_exc = "none"
                  /\ (main = "returned" /\ plan # NoPlan)
                         => result_list = <<[key |-> i, value |-> task[i].result]>>

C18_Witness ==
    /\ main = "returned"
    /\ poller = 0
    /\ last.status = "FAILED"
    /\ attempts >= 2
    /\ task[0].pc = "done"
    /\ task[0].result.data = "d1"

\* a submit response that is HTTP 200 with status SUCCESS
SubmitAccepted(resp) == resp.status_code = 200 /\ resp.status = "SUCCESS"

\* C19: the submit call of a request is never retried: in any run each request
\* is submitted at most once, and a submit response that is not HTTP 200 with
\* status SUCCESS fails the request at once with a RuntimeError, with no GET of
\* a result link for it
C19_SubmitIsNeverRetried ==
    \A i \in Indices :
        /\ Len(task[i].sent) <= 1
        /\ (Len(task[i].sent) = 1 /\ ~ SubmitAccepted(task[i].sent[1].response))
               => /\ task[i].pc = "failed"
                  /\ task[i].err = "RuntimeError"
                  /\ ~ task[i].polled
                  /\ poller # i

C19_Witness ==
    /\ main = "raised"
    /\ plan.num_batches >= 2
    /\ \E i, j \in Indices :
           /\ BatchOf(i) < BatchOf(j)
           /\ task[i].pc = "done" /\ Len(task[i].sent) = 1 /\ task[i].polled
           /\ Len(task[j].sent) = 1
           /\ task[j].sent[1].response.status_code = 500
           /\ task[j].pc = "failed" /\ ~ task[j].polled

\* arguments of generate_dbs_file that the claim calls invalid: no inflows, a
\* thermo_framework given that is not one of the two known, a phase given that
\* is not one of the four known, a databank given other than XSC
BadGenerateInput(inp) ==
    \/ inp.inflows = {}
    \/ inp.thermo_framework \notin {"None", "MSE (H3O+ ion)", "Aqueous (H+ ion)"}
    \/ \E k \in 1 .. Len(inp.phases) :
           inp.phases[k] \notin {"liquid1", "vapor", "solid", "liquid2"}
    \/ /\ inp.databanks # <<"None">>
       /\ \E k \in 1 .. Len(inp.databanks) : inp.databanks[k] # "XSC"

\* C20: generate_dbs_file called with such arguments fails before any HTTP call
\* is made, and leaves the session's tracked files (and the files on the
\* cloud) as they were
C20_BadGenerateInputFailsBeforeHttp ==
    [][(ops' = ops + 1 /\ last_op'.op = "generate")
           => \A inp \in { g \in GenerateInputs : BadGenerateInput(g) },
                 keep_file \in BOOLEAN, resp \in GenerateResponses :
                  Generate(inp, keep_file, resp)
                      => /\ last_op'.outcome = "RuntimeError:inputs"
                         /\ last_op'.http = 0
                         /\ UNCHANGED <<session_dbs_files, cloud, made, delete_log>>]_vars

C20_Witness ==
    /\ last_op.op = "generate"
    /\ last_op.outcome = "RuntimeError:inputs"
    /\ last_op.http = 0
    /\ has_session
    /\ Len(session_dbs_files) >= 1

\* the last index of batch k of size B among N requests
LastOfBatch(k, B, N) == (IF (k + 1) * B < N THEN (k + 1) * B ELSE N) - 1

\* C21: for 1 <= B < N the list is cut into ceil(N/B) contiguous batches of B
\* requests in input order, the last possibly shorter: batch k holds the
\* indices k*B .. min((k+1)*B, N)-1, every request is in exactly one batch, and
\* the run launches these batches one by one
C21_ContiguousBatches ==
    (main # "start" /\ 1 <= batch_size /\ batch_size < Len(requests))
        => LET N == Len(requests)
               B == batch_size
               ceil == (N + B - 1) \div B
           IN  /\ plan.batch_size = B
               /\ plan.num_batches = ceil
               /\ \A k \in 0 .. (ceil - 1) :
                      call_generator(bounds(k)) = (k * B) .. LastOfBatch(k, B, N)
               /\ \A i \in Indices :
                      Cardinality({ k \in 0 .. (ceil - 1) : i \in call_generator(bounds(k)) }) = 1
               /\ batch < ceil
               /\ main = "gather" =>
                      { i \in Indices : task[i].pc # "new" } = 0 .. LastOfBatch(batch, B, N)
               /\ main = "returned" => \A i \in Indices : task[i].pc = "done"

C21_Witness ==
    /\ main = "returned"
    /\ batch_size = 2
    /\ Len(requests) = 3
    /\ batch = 1
    /\ InBatch = {2}

\* C22: when the body of the with block raises, __exit__ still runs the cleanup
\* of the tracked files, and when that cleanup succeeds the body's exception is
\* not suppressed: it goes on to the caller
C22_TeardownOnBodyException ==
    /\ (last_op.op = "exit" /\ last_op.outcome # "AttributeError" /\ cl.body_exc)
           => /\ cl.caller = "exit"
              /\ cl.ids = session_dbs_files
    /\ (ExitEnded /\ cl.body_exc /\ last_op.outcome # "RuntimeError")
           => /\ last_op.outcome = "BodyError"
              /\ cl.confirmed => cl.sent = session_dbs_files

C22_Witness ==
    /\ ExitEnded
    /\ cl.body_exc
    /\ last_op.outcome = "BodyError"
    /\ Len(cl.sent) >= 2

\* C23: flash requests never touch the session's record of its files: every
\* step of call, call_async and process_request_list, succeeding or failing,
\* leaves the tracked list (and whether there is one) as it was; the only
\* operations that change it are __enter__, upload_dbs_file and generate_dbs_file
C23_RequestsLeaveTrackedFiles ==
    /\ [][flash_vars' # flash_vars => UNCHANGED <<session_dbs_files, has_session>>]_vars
    /\ [][<<session_dbs_files, has_session>>' # <<session_dbs_files, has_session>>
            => /\ UNCHANGED flash_vars
               /\ ops' = ops + 1
               /\ last_op'.op \in {"enter", "upload", "generate"}]_vars

C23_Witness ==
    /\ main = "raised"
    /\ task[0].pc = "failed"
    /\ task[0].polled
    /\ has_session
    /\ Len(session_dbs_files) >= 2
    /\ cl.caller = "none"

\* C24: within a batch the submit calls of all its requests are issued, in index
\* order, before the first poll GET of any of its requests
C24_SubmitsBeforePolls ==
    \A i, j \in Indices :
        BatchOf(i) = BatchOf(j)
            => /\ (task[i].pc = "polling" \/ task[i].polled) => Started(j)
               /\ (i < j /\ Started(j)) => Started(i)

C24_Witness ==
    /\ main = "gather"
    /\ plan.num_batches >= 2
    /\ Cardinality(InBatch) >= 2
    /\ \E i, j \in InBatch :
           /\ i < j
           /\ Len(task[i].sent) = 1 /\ Len(task[j].sent) = 1
           /\ task[j].polled /\ ~ task[i].polled

\* q is the sequence p cut after some element
IsPrefix(q, p) == Len(q) <= Len(p) /\ q = SubSeq(p, 1, Len(q))

\* C25: dbs_file_cleanup goes for all the files the cloud lists for the user
\* only when called with dbs_file_ids None; given a list, an empty one too, it
\* sends only IDs of that list to the deletion endpoint.  Teardown hands over
\* the session's tracked list, so it never deletes a file that is not tracked.
C25_CleanupDeletesWhatItIsGiven ==
    /\ (cl.caller # "none" /\ ~ cl.arg.none)
           => /\ IsPrefix(cl.sent, cl.arg.ids)
              /\ cl.pc = "deleting" => cl.ids = cl.arg.ids
    /\ (cl.caller # "none" /\ cl.arg.none)
           => /\ cl.caller = "cleanup"
              /\ IsPrefix(cl.sent, cl.ids)
              /\ (cl.pc # "idle" /\ cl.pos = 0) => Range(cl.ids) = cloud
    /\ (cl.caller = "exit" /\ last_op.op = "exit")
           => /\ cl.arg = [none |-> FALSE, ids |-> session_dbs_files]
              /\ Range(cl.sent) \subseteq Range(session_dbs_files)

C25_Witness ==
    /\ cl.caller = "given"
    /\ cl.pc = "idle"
    /\ cl.confirmed
    /\ cl.arg.ids = <<>>
    /\ cl.sent = <<>>
    /\ Cardinality(cloud) >= 2

\* C26: over any sequence of __enter__, upload_dbs_file, generate_dbs_file and
\* __exit__ on one client, a repeated __exit__ and a nested entry included, no
\* file ID is sent to the deletion endpoint more than once
C26_NoFileDeletedTwice ==
    \A k, l \in 1 .. Len(delete_log) : delete_log[k] = delete_log[l] => k = l

\* C27: a file the service created for upload_dbs_file or generate_dbs_file with
\* keep_file False is in the tracked list when the operation ends, in every
\* state of the client, also when no session was entered before the call
C27_CreatedFileIsTracked ==
    (last_op.op \in {"upload", "generate"} /\ last_op.id # 0 /\ ~ last_op.keep)
        => /\ last_op.id \in cloud
           /\ last_op.id \in Range(session_dbs_files)
           /\ last_op.outcome = "ok"

\* C28: no poll GET is issued to an empty result link: when an accepted submit
\* response carries no data.resultsLink, call and call_async fail before
\* _poll_result_link is entered
C28_NoPollOfEmptyLink ==
    \A i \in Indices :
        /\ (task[i].pc = "polling" \/ task[i].polled) => task[i].link # ""
        /\ (/\ Len(task[i].sent) = 1
            /\ SubmitAccepted(task[i].sent[1].response)
            /\ \/ ~ task[i].sent[1].response.has_data
               \/ task[i].sent[1].response.resultsLink = "")
               => /\ task[i].pc = "failed"
                  /\ ~ task[i].polled
                  /\ poller # i

C28_Witness ==
    /\ main = "raised"
    /\ Len(task[0].sent) = 1
    /\ SubmitAccepted(task[0].sent[1].response)
    /\ task[0].sent[1].response.has_data
    /\ task[0].sent[1].response.resultsLink = ""
    /\ task[0].err = "NameError"

\* C29: one request without a burst tag, and the same service responses: once
\* its call has nothing left to do, process_request_list([r]) has issued the
\* submit calls call(**r) issued (verb, URL, headers, body), received the same
\* link and made the same number of GETs there; it raises when call raised, and
\* otherwise returns [{0: x}] with x what call returned
C29_ListOfOneAgreesWithCall ==
    (replay.first.done /\ burst_job_tag = "None") =>
        /\ (main = "gather" /\ task[0].pc \in {"done", "failed"}) =>
              /\ task[0].sent = replay.first.sent
              /\ task[0].link = replay.first.link
              /\ attempts = replay.first.gets
              /\ (task[0].pc = "failed") = replay.first.raised
        /\ main = "returned" =>
              /\ ~ replay.first.raised
              /\ result_list = <<[key |-> 0, value |-> replay.first.value]>>
        /\ main = "raised" => replay.first.raised

C29_Witness ==
    /\ replay.first.done
    /\ burst_job_tag = "None"
    /\ main = "returned"
    /\ Len(replay.first.sent) = 1
    /\ replay.first.gets >= 2
    /\ Len(result_list) = 1
    /\ result_list[1].value.data = "d1"

\* C30: process_request_list called with an empty list issues no HTTP call and
\* returns an empty list: it does not raise
C30_EmptyListReturnsEmpty ==
    (Len(requests) = 0 /\ Finished)
        => /\ main = "returned"
           /\ error = "none"
           /\ result_list = <<>>

====
